---- MODULE Spec2Model ----
(***************************************************************************)
(* Model of internal/env/environment.go: the per-user store of encrypted   *)
(* environment records and its most-recently-used ordering file.           *)
(*                                                                         *)
(* Names are sequences of tokens: the identifier "a" is <<"a">>, the file  *)
(* name "a.json" is <<"a", ".json">>, so appending and testing the suffix  *)
(* ".json" are what they are on strings.  The store directory e.dir is the *)
(* only directory, so a path is the name of its last element.              *)
(*                                                                         *)
(* KeySource is the Reader's field, set when the session starts.  The      *)
(* other environment outcomes are inputs of the calls: the capture         *)
(* handler's result, whether MkdirAll and the record write succeed, and    *)
(* the selection prompt's answer.  A write into the store directory fails  *)
(* when that directory does not exist; other I/O errors on an existing     *)
(* directory are modelled for the record write alone.                      *)
(*                                                                         *)
(* Spec runs the calls of one Reader one after the other.  SpecRace runs   *)
(* envOrderBringToFront from two processes sharing the store directory,    *)
(* each call in two steps, the load of the ordering file and the write of  *)
(* the new one; calls holds where each process is in it.                   *)
(***************************************************************************)
EXTENDS Integers, Sequences, FiniteSets, TLC

VARIABLES dirExists, files, orderFile, KeySource, last, calls

vars == <<dirExists, files, orderFile, KeySource, last, calls>>

\* The state of the file system under e.dir.
store == <<dirExists, files, orderFile>>

----------------------------------------------------------------------------
\* Bounds of the model.

\* Record values are 1..MaxVal; 0 is the zero value of the caller's target.
MaxVal == 2

\* Non-empty keys are 1..MaxKey; 0 is the empty key.
MaxKey == 1

----------------------------------------------------------------------------
\* Names.

Suffix == ".json"

envOrderFileName == <<"env-order">>

MaxInt32 == 2147483647

\* The identifiers callers use; one of them itself ends in ".json".
Ids == {<<"a">>, <<"b">>, <<"a", Suffix>>}

\* strings.HasSuffix(name, ".json")
HasSuffix(name) == Len(name) > 0 /\ name[Len(name)] = Suffix

\* name[:len(name)-5]
TrimSuffix(name) == SubSeq(name, 1, Len(name) - 1)

\* The last path element of getEnvFilePath(envName).
getEnvFilePath(envName) == Append(envName, Suffix)

RecordNames == {getEnvFilePath(i) : i \in Ids}

\* A file of the store directory that is no record: its name has no suffix.
OtherName == <<"c">>

\* A name that only ever occurs in a hand-written ordering file.
StaleName == <<"z", Suffix>>

EntryNames == RecordNames \cup {OtherName}

Vals == 1..MaxVal

Keys == 0..MaxKey

----------------------------------------------------------------------------
\* Directory entries.

Absent == [kind |-> "absent", mac |-> 0, data |-> 0]

Directory == [kind |-> "dir", mac |-> 0, data |-> 0]

Plain == [kind |-> "file", mac |-> 0, data |-> 0]

\* Ordering file contents.
NoOrderFile == [kind |-> "absent", fixed |-> FALSE, isNil |-> TRUE, order |-> <<>>]

EmptyOrderFile == [kind |-> "empty", fixed |-> FALSE, isNil |-> TRUE, order |-> <<>>]

CorruptOrderFile == [kind |-> "corrupt", fixed |-> FALSE, isNil |-> TRUE, order |-> <<>>]

\* type envOrder: Order is nil (isNil) or a slice.
envOrder(fixed, isNil, order) ==
    [Fixed |-> fixed, isNil |-> isNil, Order |-> order]

\* The ordering file holding the JSON of an envOrder value.
JsonOrderFile(o) ==
    [kind |-> "json", fixed |-> o.Fixed, isNil |-> o.isNil, order |-> o.Order]

----------------------------------------------------------------------------
\* Listing.

\* Byte order of the first character of each token.
TokRank(t) ==
    CASE t = Suffix -> 0
      [] t = "a" -> 1
      [] t = "b" -> 2
      [] t = "c" -> 3
      [] t = "env-order" -> 4
      [] OTHER -> 5

\* x sorts before y by file name.
RECURSIVE NameLess(_, _)
NameLess(x, y) ==
    IF y = <<>> THEN FALSE
    ELSE IF x = <<>> THEN TRUE
    ELSE IF TokRank(Head(x)) # TokRank(Head(y))
         THEN TokRank(Head(x)) < TokRank(Head(y))
         ELSE NameLess(Tail(x), Tail(y))

\* The names of a set, sorted by file name.
RECURSIVE SortByName(_)
SortByName(S) ==
    IF S = {} THEN <<>>
    ELSE LET m == CHOOSE x \in S : \A y \in S \ {x} : NameLess(x, y)
         IN <<m>> \o SortByName(S \ {m})

\* The names present in the store directory.
DirNames(fs, of) ==
    {n \in EntryNames : fs[n].kind # "absent"}
        \cup (IF of.kind # "absent" THEN {envOrderFileName} ELSE {})

\* ioutil.ReadDir(e.dir): the entries sorted by file name; none when the
\* directory does not exist.
ReadDir(de, fs, of) ==
    IF de THEN SortByName(DirNames(fs, of)) ELSE <<>>

\* fi.IsDir()
IsDir(fs, name) == name \in EntryNames /\ fs[name].kind = "dir"

\* The filter without its test of fi.IsDir().
IsEnvFile_dirsToo(fs, name) ==
    HasSuffix(name) /\ name # envOrderFileName

\* The filter of GetEnvironmentFiles.
IsEnvFile(fs, name) ==
    ~IsDir(fs, name) /\ HasSuffix(name) /\ name # envOrderFileName

\* readEnvOrder handing back what json.Unmarshal had decoded before it
\* failed: here the first entry of an unparsable list.
readEnvOrder_partial(of) ==
    IF of.kind = "json"
    THEN envOrder(of.fixed, of.isNil, of.order)
    ELSE IF of.kind = "corrupt"
         THEN envOrder(FALSE, FALSE, <<getEnvFilePath(<<"b">>)>>)
         ELSE envOrder(FALSE, FALSE, <<>>)

\* readEnvOrder: a missing, empty or unparsable file reads as {false, []}.
readEnvOrder(of) ==
    IF of.kind = "json"
    THEN envOrder(of.fixed, of.isNil, of.order)
    ELSE envOrder(FALSE, FALSE, <<>>)

\* orderMap[name] = i for each i, name of order.Order, a later index
\* replacing an earlier one; indexes count from 0.
orderMap(order) ==
    [n \in {order[i] : i \in DOMAIN order} |->
        (CHOOSE i \in DOMAIN order :
            order[i] = n /\ \A j \in DOMAIN order : order[j] = n => j <= i) - 1]

\* iVal / jVal of the less function.
SortKey(om, name) == IF name \in DOMAIN om THEN om[name] ELSE MaxInt32

\* The step of a sort that is not stable: x goes before its equals.
RECURSIVE InsertStable_beforeEquals(_, _, _)
InsertStable_beforeEquals(sorted, x, om) ==
    IF sorted = <<>> THEN <<x>>
    ELSE IF SortKey(om, x) <= SortKey(om, Head(sorted))
         THEN <<x>> \o sorted
         ELSE <<Head(sorted)>> \o InsertStable_beforeEquals(Tail(sorted), x, om)

\* One step of a stable sort: x goes before the first element that is
\* greater than it.
RECURSIVE InsertStable(_, _, _)
InsertStable(sorted, x, om) ==
    IF sorted = <<>> THEN <<x>>
    ELSE IF SortKey(om, x) < SortKey(om, Head(sorted))
         THEN <<x>> \o sorted
         ELSE <<Head(sorted)>> \o InsertStable(Tail(sorted), x, om)

\* sort.SliceStable(envFiles, less)
RECURSIVE SliceStable(_, _)
SliceStable(s, om) ==
    IF s = <<>> THEN <<>>
    ELSE InsertStable(SliceStable(SubSeq(s, 1, Len(s) - 1), om), s[Len(s)], om)

\* GetEnvironmentFiles: the names of the record files, in listing order.
GetEnvironmentFiles(de, fs, of) ==
    LET envFiles == SelectSeq(ReadDir(de, fs, of), LAMBDA n : IsEnvFile(fs, n))
        order == readEnvOrder(of)
    IN IF ~order.isNil /\ Len(order.Order) > 0
       THEN SliceStable(envFiles, orderMap(order.Order))
       ELSE envFiles

\* The titles of ListEnvironments and SelectEnvironment with no
\* GetEnvFileTitle handler: the file names without their suffix.
envTitles(envFiles) ==
    [i \in DOMAIN envFiles |->
        IF HasSuffix(envFiles[i]) THEN TrimSuffix(envFiles[i]) ELSE envFiles[i]]

----------------------------------------------------------------------------
\* Keys and the codec.

NilSource == [kind |-> "nil", key |-> 0]

FailSource == [kind |-> "fail", key |-> 0]

\* Reader.KeySource: unset, a source that fails, or one returning a key.
KeySources ==
    {NilSource, FailSource} \cup {[kind |-> "key", key |-> k] : k \in Keys \ {0}}

\* keySource(): an unset key source gives the empty key.
keySource(ks) ==
    CASE ks.kind = "nil" -> [ok |-> TRUE, key |-> 0]
      [] ks.kind = "key" -> [ok |-> TRUE, key |-> ks.key]
      [] OTHER -> [ok |-> FALSE, key |-> 0]

\* The record file jcrypt writes for value v under key k.
Encrypt(v, k) == [kind |-> "file", mac |-> k, data |-> v + k]

\* Decrypt handing back the stored data as they are.
Decrypt_raw(c, k) ==
    IF c.mac = k
    THEN [ok |-> TRUE, val |-> c.data]
    ELSE [ok |-> FALSE, val |-> 0]

\* What jcrypt reads back from record file c under key k.
Decrypt(c, k) ==
    IF c.mac = k
    THEN [ok |-> TRUE, val |-> c.data - k]
    ELSE [ok |-> FALSE, val |-> 0]

\* isFile(file): the path exists and is no directory.
isFile(de, fs, name) == de /\ fs[name].kind = "file"

\* os.MkdirAll(e.dir): nothing to do for an existing directory.
MkdirAll(de, mkdirOk) == de \/ mkdirOk

\* jcrypt.MarshalToFile(file, env, keySource)
MarshalToFile(fs, name, val, ks, writeOk) ==
    IF keySource(ks).ok /\ fs[name].kind # "dir" /\ writeOk
    THEN [ok |-> TRUE,
          fs |-> [fs EXCEPT ![name] = Encrypt(val, keySource(ks).key)]]
    ELSE [ok |-> FALSE, fs |-> fs]

\* jcrypt.UnmarshalFromFile(file, env, keySource)
UnmarshalFromFile(fs, name, ks) ==
    IF keySource(ks).ok
    THEN Decrypt(fs[name], keySource(ks).key)
    ELSE [ok |-> FALSE, val |-> 0]

----------------------------------------------------------------------------
\* The ordering file.

\* writeEnvOrder: ioutil.WriteFile into e.dir, which fails when e.dir does
\* not exist.
writeEnvOrder(de, of, order) ==
    IF de THEN JsonOrderFile(order) ELSE of

\* The loop without its test: every entry is appended.
RECURSIVE AppendOthers_keepAll(_, _, _)
AppendOthers_keepAll(newOrder, rest, name) ==
    IF rest = <<>> THEN newOrder
    ELSE AppendOthers_keepAll(Append(newOrder, Head(rest)), Tail(rest), name)

\* The loop of envOrderBringToFront keeping an occurrence of name at the end
\* of the list.
RECURSIVE AppendOthers_keepLast(_, _, _)
AppendOthers_keepLast(newOrder, rest, name) ==
    IF rest = <<>> THEN newOrder
    ELSE AppendOthers_keepLast(
             IF Head(rest) # name \/ Tail(rest) = <<>>
             THEN Append(newOrder, Head(rest)) ELSE newOrder,
             Tail(rest), name)

\* The loop of envOrderBringToFront: append every entry that is not name.
RECURSIVE AppendOthers(_, _, _)
AppendOthers(newOrder, rest, name) ==
    IF rest = <<>> THEN newOrder
    ELSE AppendOthers(
             IF Head(rest) # name THEN Append(newOrder, Head(rest)) ELSE newOrder,
             Tail(rest), name)

\* The name envOrderBringToFront puts in the order list.
NormalizeName(name) == IF ~HasSuffix(name) THEN Append(name, Suffix) ELSE name

\* envOrderBringToFront without the test of order.Fixed.
envOrderBringToFront_ignoreFixed(de, of, name) ==
    LET order == readEnvOrder(of)
        n == NormalizeName(name)
    IN IF order.isNil
       THEN writeEnvOrder(de, of, envOrder(order.Fixed, FALSE, <<n>>))
       ELSE writeEnvOrder(de, of,
                envOrder(order.Fixed, FALSE, AppendOthers(<<n>>, order.Order, n)))

\* envOrderBringToFront dropping only the first earlier occurrence of name.
envOrderBringToFront_dropFirst(de, of, name) ==
    LET order == readEnvOrder(of)
        n == NormalizeName(name)
        i == IF \E j \in DOMAIN order.Order : order.Order[j] = n
             THEN CHOOSE j \in DOMAIN order.Order :
                      /\ order.Order[j] = n
                      /\ \A k \in 1..(j - 1) : order.Order[k] # n
             ELSE 0
        rest == IF i = 0 THEN order.Order
                ELSE SubSeq(order.Order, 1, i - 1)
                         \o SubSeq(order.Order, i + 1, Len(order.Order))
    IN IF order.Fixed THEN of
       ELSE writeEnvOrder(de, of, envOrder(order.Fixed, FALSE, <<n>> \o rest))

\* envOrderBringToFront writing a list of the name alone.
broughtToFront_nameAlone(order, de, of, name) ==
    IF order.Fixed THEN of
    ELSE writeEnvOrder(de, of, envOrder(order.Fixed, FALSE, <<NormalizeName(name)>>))

\* envOrderBringToFront after its load of the ordering file: the ordering
\* file it leaves, given the envOrder value it loaded.
broughtToFront(order, de, of, name) ==
    LET n == NormalizeName(name)
    IN IF order.Fixed THEN of
       ELSE IF order.isNil
            THEN writeEnvOrder(de, of, envOrder(order.Fixed, FALSE, <<n>>))
            ELSE writeEnvOrder(de, of,
                     envOrder(order.Fixed, FALSE, AppendOthers(<<n>>, order.Order, n)))

\* envOrderBringToFront(name): the ordering file after the call.
envOrderBringToFront(de, of, name) ==
    broughtToFront(readEnvOrder(of), de, of, name)

----------------------------------------------------------------------------
\* Reading and creating records.

\* What a call returns and the store it leaves; captured says that the
\* capture handler was called, entered is the value it put in the target.
Outcome(err, target, de, fs, of, captured, entered, warned, saved) ==
    [err |-> err, target |-> target, de |-> de, fs |-> fs, of |-> of,
     captured |-> captured, entered |-> entered, warned |-> warned,
     saved |-> saved]

\* enterEnvironment returning the error of a failed save.
enterEnvironment_failOnSave(envName, ks, in) ==
    IF ~in.handlerOk
    THEN Outcome("capture", 0, dirExists, files, orderFile, TRUE, 0, FALSE, FALSE)
    ELSE LET de == MkdirAll(dirExists, in.mkdirOk)
             m == IF de
                  THEN MarshalToFile(files, getEnvFilePath(envName), in.val, ks,
                                     in.writeOk)
                  ELSE [ok |-> FALSE, fs |-> files]
         IN IF ~m.ok
            THEN Outcome("save", in.val, de, m.fs, orderFile, TRUE, in.val, TRUE, FALSE)
            ELSE Outcome("none", in.val, de, m.fs,
                         envOrderBringToFront(de, orderFile, envName),
                         TRUE, in.val, FALSE, TRUE)

\* enterEnvironment creating the store directory before it asks the handler.
enterEnvironment_mkdirFirst(envName, ks, in) ==
    LET de == MkdirAll(dirExists, in.mkdirOk)
    IN IF ~in.handlerOk
       THEN Outcome("capture", 0, de, files, orderFile, TRUE, 0, FALSE, FALSE)
       ELSE LET m == IF de
                     THEN MarshalToFile(files, getEnvFilePath(envName), in.val, ks,
                                        in.writeOk)
                     ELSE [ok |-> FALSE, fs |-> files]
            IN Outcome("none", in.val, de, m.fs,
                       envOrderBringToFront(de, orderFile, envName),
                       TRUE, in.val, ~m.ok, m.ok)

\* enterEnvironment bringing the identifier to the front only after a save.
enterEnvironment_frontIfSaved(envName, ks, in) ==
    IF ~in.handlerOk
    THEN Outcome("capture", 0, dirExists, files, orderFile, TRUE, 0, FALSE, FALSE)
    ELSE LET de == MkdirAll(dirExists, in.mkdirOk)
             m == IF de
                  THEN MarshalToFile(files, getEnvFilePath(envName), in.val, ks,
                                     in.writeOk)
                  ELSE [ok |-> FALSE, fs |-> files]
         IN Outcome("none", in.val, de, m.fs,
                    IF m.ok THEN envOrderBringToFront(de, orderFile, envName)
                    ELSE orderFile,
                    TRUE, in.val, ~m.ok, m.ok)

\* The branch of createOrReadEnvironment for a missing record and a capture
\* handler: capture, then try to save, then bring to front.
enterEnvironment(envName, ks, in) ==
    IF ~in.handlerOk
    THEN Outcome("capture", 0, dirExists, files, orderFile, TRUE, 0, FALSE, FALSE)
    ELSE LET de == MkdirAll(dirExists, in.mkdirOk)
             m == IF de
                  THEN MarshalToFile(files, getEnvFilePath(envName), in.val, ks,
                                     in.writeOk)
                  ELSE [ok |-> FALSE, fs |-> files]
         IN Outcome("none", in.val, de, m.fs,
                    envOrderBringToFront(de, orderFile, envName),
                    TRUE, in.val, ~m.ok, m.ok)

\* unmarshalEnvironment bringing the identifier to the front before it
\* decodes the record.
unmarshalEnvironment_frontFirst(envName, ks) ==
    LET u == UnmarshalFromFile(files, getEnvFilePath(envName), ks)
        of == envOrderBringToFront(dirExists, orderFile, envName)
    IN IF ~u.ok
       THEN Outcome("decode", 0, dirExists, files, of, FALSE, 0, FALSE, FALSE)
       ELSE Outcome("none", u.val, dirExists, files, of, FALSE, 0, FALSE, FALSE)

\* The branch of createOrReadEnvironment for an existing record.
unmarshalEnvironment(envName, ks) ==
    LET u == UnmarshalFromFile(files, getEnvFilePath(envName), ks)
    IN IF ~u.ok
       THEN Outcome("decode", 0, dirExists, files, orderFile, FALSE, 0, FALSE, FALSE)
       ELSE Outcome("none", u.val, dirExists, files,
                    envOrderBringToFront(dirExists, orderFile, envName),
                    FALSE, 0, FALSE, FALSE)

\* createOrReadEnvironment asking the capture handler whether or not the
\* record exists.
createOrReadEnvironment_alwaysEnter(envName, handler, ks, in) ==
    IF handler
    THEN enterEnvironment(envName, ks, in)
    ELSE IF ~isFile(dirExists, files, getEnvFilePath(envName))
         THEN Outcome("notfound", 0, dirExists, files, orderFile,
                      FALSE, 0, FALSE, FALSE)
         ELSE unmarshalEnvironment(envName, ks)

\* createOrReadEnvironment(envName, env, enterEnvHandler); handler says
\* whether enterEnvHandler is set, in holds what the environment answers.
createOrReadEnvironment(envName, handler, ks, in) ==
    IF ~isFile(dirExists, files, getEnvFilePath(envName))
    THEN IF handler
         THEN enterEnvironment(envName, ks, in)
         ELSE Outcome("notfound", 0, dirExists, files, orderFile,
                      FALSE, 0, FALSE, FALSE)
    ELSE unmarshalEnvironment(envName, ks)

\* The answers a call without capture handler never asks for.
NoCapture == [handlerOk |-> TRUE, val |-> 0, mkdirOk |-> TRUE, writeOk |-> TRUE]

\* A call that touched nothing and returned err.
Plainly(err) ==
    Outcome(err, 0, dirExists, files, orderFile, FALSE, 0, FALSE, FALSE)

\* The call before this one read the record of id.
AfterRead(id) ==
    /\ last.op \in {"Read", "CreateOrRead", "Select"}
    /\ last.err = "none" /\ ~last.captured
    /\ last.id = id

\* The call before this one captured and saved the record of id.
AfterSave(id) == last.saved /\ last.id = id

\* The record of a call: what it was given, what it returned, and what the
\* call before it had done to the same identifier.
Call(op, id, r, presented, listing) ==
    [op |-> op, id |-> id, err |-> r.err, target |-> r.target,
     captured |-> r.captured, entered |-> r.entered, warned |-> r.warned,
     saved |-> r.saved,
     presented |-> presented, listing |-> listing,
     afterRead |-> r.err = "none" /\ ~r.captured /\ AfterRead(id),
     afterSave |-> op = "Read" /\ AfterSave(id),
     savedVal |-> IF op = "Read" /\ AfterSave(id) THEN last.target ELSE 0]

\* The effect of a call on the variables.
Effect(c, r) ==
    /\ dirExists' = r.de
    /\ files' = r.fs
    /\ orderFile' = r.of
    /\ last' = c
    /\ UNCHANGED <<KeySource, calls>>

\* ReadEnvironment handing on the Reader's capture handler instead of nil.
ReadEnvironment_withHandler(envName) ==
    LET r == createOrReadEnvironment(envName, TRUE, KeySource,
                 [handlerOk |-> TRUE, val |-> 1, mkdirOk |-> TRUE, writeOk |-> TRUE])
    IN Effect(Call("Read", envName, r, FALSE, <<>>), r)

ReadEnvironment(envName) ==
    LET r == createOrReadEnvironment(envName, FALSE, KeySource, NoCapture)
    IN Effect(Call("Read", envName, r, FALSE, <<>>), r)

CreateOrReadEnvironment(envName, in) ==
    LET r == createOrReadEnvironment(envName, TRUE, KeySource, in)
    IN Effect(Call("CreateOrRead", envName, r, FALSE, <<>>), r)

\* SelectEnvironment without the test for an empty list: the prompt runs on
\* no items and fails.
SelectEnvironment_promptFirst(index) ==
    LET envFiles == GetEnvironmentFiles(dirExists, files, orderFile)
    IN /\ index \in 0..Len(envFiles)
       /\ IF index = 0
          THEN Effect(Call("Select", <<>>, Plainly("ui"), TRUE, <<>>),
                      Plainly("ui"))
          ELSE LET fileName == envFiles[index]
                   envName == TrimSuffix(fileName)
                   r == createOrReadEnvironment(envName, FALSE, KeySource, NoCapture)
               IN Effect(Call("Select", envName, r, TRUE, <<>>), r)

\* SelectEnvironment; index is what the prompt returns, 0 when it fails.
SelectEnvironment(index) ==
    LET envFiles == GetEnvironmentFiles(dirExists, files, orderFile)
    IN IF Len(envFiles) = 0
       THEN /\ index = 0
            /\ Effect(Call("Select", <<>>, Plainly("empty"), FALSE, <<>>),
                      Plainly("empty"))
       ELSE /\ index \in 0..Len(envFiles)
            /\ IF index = 0
               THEN Effect(Call("Select", <<>>, Plainly("ui"), TRUE, <<>>),
                           Plainly("ui"))
               ELSE LET fileName == envFiles[index]
                        envName == TrimSuffix(fileName)
                        r == createOrReadEnvironment(envName, FALSE, KeySource, NoCapture)
                    IN Effect(Call("Select", envName, r, TRUE, <<>>), r)

ListEnvironments ==
    LET envFiles == GetEnvironmentFiles(dirExists, files, orderFile)
    IN Effect(Call("List", <<>>, Plainly("none"), FALSE,
                   envTitles(envFiles)),
              Plainly("none"))

\* DeleteEnvironment purging the record's entry from the ordering file.
DeleteEnvironment_purge(envName) ==
    LET file == getEnvFilePath(envName)
    IN IF ~isFile(dirExists, files, file)
       THEN Effect(Call("Delete", envName, Plainly("notexist"), FALSE, <<>>),
                   Plainly("notexist"))
       ELSE LET order == readEnvOrder(orderFile)
                r == Outcome("none", 0, dirExists,
                             [files EXCEPT ![file] = Absent],
                             writeEnvOrder(dirExists, orderFile,
                                 envOrder(order.Fixed, FALSE,
                                     SelectSeq(order.Order, LAMBDA e : e # file))),
                             FALSE, 0, FALSE, FALSE)
            IN Effect(Call("Delete", envName, r, FALSE, <<>>), r)

DeleteEnvironment(envName) ==
    LET file == getEnvFilePath(envName)
    IN IF ~isFile(dirExists, files, file)
       THEN Effect(Call("Delete", envName, Plainly("notexist"),
                        FALSE, <<>>),
                   Plainly("notexist"))
       ELSE LET r == Outcome("none", 0, dirExists,
                             [files EXCEPT ![file] = Absent], orderFile,
                             FALSE, 0, FALSE, FALSE)
            IN Effect(Call("Delete", envName, r, FALSE, <<>>), r)

----------------------------------------------------------------------------
\* Concurrent calls of envOrderBringToFront.

\* The processes that share the store directory.
Procs == {1, 2}

\* A process outside envOrderBringToFront.
Idle ==
    [pc |-> "idle", name |-> <<>>, order |-> envOrder(FALSE, TRUE, <<>>),
     loadedAfter |-> 0, finished |-> 0]

\* The calls of envOrderBringToFront that have returned.
Finished == Cardinality({p \in Procs : calls[p].finished > 0})

\* Process p enters envOrderBringToFront(name).
BeginBringToFront(p, name) ==
    /\ calls[p].pc = "idle"
    /\ calls' = [calls EXCEPT ![p] = [Idle EXCEPT !.pc = "load", !.name = name]]
    /\ UNCHANGED <<store, KeySource, last>>

\* Process p loads the ordering file: order, err := e.readEnvOrder().
LoadOrder(p) ==
    /\ calls[p].pc = "load"
    /\ calls' = [calls EXCEPT ![p].pc = "store",
                              ![p].order = readEnvOrder(orderFile),
                              ![p].loadedAfter = Finished]
    /\ UNCHANGED <<store, KeySource, last>>

\* The write of process p loading the ordering file again just before it
\* writes, in one step.
StoreOrder_reload(p) ==
    /\ calls[p].pc = "store"
    /\ orderFile' = envOrderBringToFront(dirExists, orderFile, calls[p].name)
    /\ calls' = [calls EXCEPT ![p].pc = "done", ![p].finished = Finished + 1]
    /\ UNCHANGED <<dirExists, files, KeySource, last>>

\* Process p builds the new order from the one it loaded and writes the
\* ordering file, or returns without a write when the order is fixed.
StoreOrder(p) ==
    /\ calls[p].pc = "store"
    /\ orderFile' = broughtToFront(calls[p].order, dirExists, orderFile,
                                   calls[p].name)
    /\ calls' = [calls EXCEPT ![p].pc = "done", ![p].finished = Finished + 1]
    /\ UNCHANGED <<dirExists, files, KeySource, last>>

----------------------------------------------------------------------------
\* The stores a session can start from.

NoFiles == [n \in EntryNames |-> Absent]

InitFiles ==
    LET a == getEnvFilePath(<<"a">>)
        b == getEnvFilePath(<<"b">>)
        aj == getEnvFilePath(<<"a", Suffix>>)
    IN {NoFiles,
        [NoFiles EXCEPT ![a] = Encrypt(1, 0), ![b] = Encrypt(MaxVal, 0),
                        ![OtherName] = Plain],
        [NoFiles EXCEPT ![a] = Encrypt(1, MaxKey), ![b] = Directory,
                        ![aj] = Encrypt(MaxVal, 0)],
        [NoFiles EXCEPT ![a] = Encrypt(1, 0), ![b] = Encrypt(1, 0),
                        ![aj] = Encrypt(1, 0)]}

InitOrders ==
    LET a == getEnvFilePath(<<"a">>)
        b == getEnvFilePath(<<"b">>)
    IN {NoOrderFile, EmptyOrderFile, CorruptOrderFile,
        JsonOrderFile(envOrder(FALSE, TRUE, <<>>)),
        JsonOrderFile(envOrder(TRUE, TRUE, <<>>)),
        JsonOrderFile(envOrder(FALSE, FALSE, <<>>)),
        JsonOrderFile(envOrder(FALSE, FALSE, <<b, a>>)),
        JsonOrderFile(envOrder(TRUE, FALSE, <<b, a>>)),
        JsonOrderFile(envOrder(FALSE, FALSE, <<StaleName, b>>)),
        JsonOrderFile(envOrder(FALSE, FALSE, <<b, a, b>>))}

\* What the capture handler, MkdirAll and the record write answer.
CaptureInputs ==
    {[handlerOk |-> FALSE, val |-> 0, mkdirOk |-> TRUE, writeOk |-> TRUE]}
        \cup {[handlerOk |-> TRUE, val |-> v, mkdirOk |-> p[1], writeOk |-> p[2]] :
                 v \in Vals, p \in {<<TRUE, TRUE>>, <<FALSE, TRUE>>, <<TRUE, FALSE>>}}

NoCall ==
    [op |-> "none", id |-> <<>>, err |-> "none", target |-> 0,
     captured |-> FALSE, entered |-> 0, warned |-> FALSE, saved |-> FALSE,
     presented |-> FALSE, listing |-> <<>>,
     afterRead |-> FALSE, afterSave |-> FALSE, savedVal |-> 0]

Init ==
    /\ dirExists \in BOOLEAN
    /\ files \in InitFiles
    /\ orderFile \in InitOrders
    /\ ~dirExists => files = NoFiles /\ orderFile = NoOrderFile
    /\ KeySource \in KeySources
    /\ last = NoCall
    /\ calls = [p \in Procs |-> Idle]

Next ==
    \/ \E envName \in Ids : ReadEnvironment(envName)
    \/ \E envName \in Ids, in \in CaptureInputs :
           CreateOrReadEnvironment(envName, in)
    \/ \E index \in 0..Cardinality(RecordNames) : SelectEnvironment(index)
    \/ ListEnvironments
    \/ \E envName \in Ids : DeleteEnvironment(envName)

Spec == Init /\ [][Next]_vars

\* Two processes, each calling envOrderBringToFront once.
NextRace ==
    \/ \E p \in Procs, name \in Ids : BeginBringToFront(p, name)
    \/ \E p \in Procs : LoadOrder(p)
    \/ \E p \in Procs : StoreOrder(p)

SpecRace == Init /\ [][NextRace]_vars

----------------------------------------------------------------------------
\* Properties.

\* The record files of the store directory.
RecordFiles(de, fs) ==
    IF de THEN {n \in EntryNames : fs[n].kind = "file" /\ HasSuffix(n)} ELSE {}

\* The order list a load of the ordering file gives.
LoadedOrder(of) == IF of.kind = "json" /\ ~of.isNil THEN of.order ELSE <<>>

\* The ordering is pinned.
Pinned(of) == of.kind = "json" /\ of.fixed

\* The order entry of an identifier: its suffixed form, if not already
\* suffixed.
EntryOf(id) == IF HasSuffix(id) THEN id ELSE Append(id, Suffix)

\* How often e occurs in the sequence s.
Count(s, e) == Cardinality({i \in DOMAIN s : s[i] = e})

\* C1: a strict read of an identifier whose record file does not exist
\* fails with the not-found error and leaves the directory, the record
\* files and the ordering file as they were.
C1_StrictReadOfMissingRecord ==
    [][(last'.op = "Read"
          /\ getEnvFilePath(last'.id) \notin RecordFiles(dirExists, files))
          => (last'.err = "notfound" /\ last'.target = 0 /\ ~last'.captured
                /\ UNCHANGED store)]_vars

C1_Witness ==
    /\ last.op = "Read" /\ last.err = "notfound"
    /\ ~dirExists
    /\ last.id = <<"a">>

\* C2: create-or-read of an identifier with no record file, the capture
\* handler succeeding, returns success with the handler's value in the
\* target in every persistence outcome (saved, directory creation failed,
\* record write failed); a failed save gives a warning and nothing else.
C2_CaptureSucceedsWhateverTheSave ==
    [][(last'.op = "CreateOrRead"
          /\ getEnvFilePath(last'.id) \notin RecordFiles(dirExists, files)
          /\ last'.entered \in Vals)
          => /\ last'.err = "none"
             /\ last'.target = last'.entered
             /\ last'.captured
             /\ last'.warned = ~last'.saved
             /\ last'.saved =>
                    getEnvFilePath(last'.id) \in RecordFiles(dirExists', files')
             /\ ~last'.saved => files' = files]_vars

C2_Witness ==
    /\ last.op = "CreateOrRead" /\ last.captured /\ last.err = "none"
    /\ last.warned /\ ~dirExists
    /\ last.target = MaxVal

\* C3: when the capture handler fails, its error is returned and nothing is
\* persisted: no directory, no record file, the ordering file as it was.
C3_FailedCapturePersistsNothing ==
    [][(last'.op = "CreateOrRead" /\ last'.captured /\ last'.entered \notin Vals)
          => (last'.err = "capture" /\ ~last'.saved /\ UNCHANGED store)]_vars

C3_Witness ==
    /\ last.op = "CreateOrRead" /\ last.err = "capture" /\ last.captured
    /\ ~dirExists

BroughtToFront(c) ==
    c.op \in {"Read", "CreateOrRead", "Select"} /\ c.err = "none"

\* C5: with the ordering not fixed, a bring-to-front of a name that writes
\* the ordering file writes the name's entry followed by every previous
\* entry different from it, in their previous order, and the fixed flag as
\* it was.
C5_MoveToFront ==
    [][(BroughtToFront(last') /\ ~Pinned(orderFile) /\ dirExists')
          => LET n == EntryOf(last'.id)
                 old == LoadedOrder(orderFile)
             IN /\ orderFile'.kind = "json"
                /\ ~orderFile'.isNil
                /\ orderFile'.order = <<n>> \o SelectSeq(old, LAMBDA e : e # n)
                /\ orderFile'.fixed = FALSE]_vars

C5_Witness ==
    /\ BroughtToFront(last) /\ ~Pinned(orderFile)
    /\ orderFile.kind = "json"
    /\ Len(orderFile.order) >= 3
    /\ orderFile.order[1] = EntryOf(last.id)
    /\ StaleName \in {orderFile.order[i] : i \in DOMAIN orderFile.order}

\* The call that made this state read a record, and so did the call
\* before it, of the same identifier.
ReadTwice(c) == c.afterRead /\ BroughtToFront(c)

\* The entry of id is first in the persisted order list and occurs once.
FirstAndOnce(of, id) ==
    /\ of.kind = "json" /\ ~of.isNil
    /\ Len(of.order) > 0
    /\ of.order[1] = EntryOf(id)
    /\ Count(of.order, EntryOf(id)) = 1

\* C6 as stated: the second of two successful reads of an identifier in a
\* row leaves the ordering file as the first left it, with the identifier's
\* entry first and occurring once.
C6_AsStated ==
    [][ReadTwice(last')
          => (orderFile' = orderFile /\ FirstAndOnce(orderFile', last'.id))]_vars

\* C6 amended: the second of two successful reads of an identifier in a row
\* leaves the ordering file as the first left it; with the ordering not
\* fixed the identifier's entry is first in it and occurs once.
C6_RepeatedReadIdempotent ==
    [][ReadTwice(last')
          => /\ orderFile' = orderFile
             /\ ~Pinned(orderFile') => FirstAndOnce(orderFile', last'.id)]_vars

C6_Witness ==
    /\ ReadTwice(last) /\ last.op = "Read"
    /\ ~Pinned(orderFile)
    /\ Len(LoadedOrder(orderFile)) >= 3

\* C7: once the ordering file has fixed = true, no call changes its order
\* list or its fixed flag.
C7_FixedFreezesOrder ==
    [][Pinned(orderFile)
          => (/\ Pinned(orderFile')
              /\ orderFile'.fixed = orderFile.fixed
              /\ orderFile'.isNil = orderFile.isNil
              /\ orderFile'.order = orderFile.order)]_vars

C7_Witness ==
    /\ Pinned(orderFile)
    /\ last.op = "CreateOrRead" /\ last.saved
    /\ Len(orderFile.order) >= 2
    /\ orderFile.order[1] # EntryOf(last.id)

\* The listing of the store as it is.
Listing == GetEnvironmentFiles(dirExists, files, orderFile)

\* The names of the order list.
Ranked(of) == {LoadedOrder(of)[i] : i \in DOMAIN LoadedOrder(of)}

\* s names every element of S once and nothing else.
IsPermutationOf(s, S) ==
    /\ {s[i] : i \in DOMAIN s} = S
    /\ Len(s) = Cardinality(S)

\* C8: with a non-empty order list the listing holds the record files, the
\* files of the order list first and in the order of the list, the others
\* after them in the order of the directory enumeration (by file name);
\* order [B, A] with files [A, B, C] lists [B, A, C]; and a listing leaves
\* the store as it is, so that the next listing returns the same.
C8_StableListing ==
    /\ Len(LoadedOrder(orderFile)) > 0 =>
          /\ IsPermutationOf(Listing, RecordFiles(dirExists, files))
          /\ \A i, j \in DOMAIN Listing :
                i < j =>
                   LET x == Listing[i]
                       y == Listing[j]
                       o == LoadedOrder(orderFile)
                   IN /\ y \in Ranked(orderFile) => x \in Ranked(orderFile)
                      /\ (x \in Ranked(orderFile) /\ y \in Ranked(orderFile))
                            => \E p, q \in DOMAIN o :
                                  p < q /\ o[p] = x /\ o[q] = y
                      /\ (x \notin Ranked(orderFile) /\ y \notin Ranked(orderFile))
                            => NameLess(x, y)
    /\ LET A == getEnvFilePath(<<"a">>)
           B == getEnvFilePath(<<"b">>)
           C == getEnvFilePath(<<"a", Suffix>>)
       IN (/\ LoadedOrder(orderFile) = <<B, A>>
           /\ RecordFiles(dirExists, files) = {A, B, C})
              => Listing = <<B, A, C>>
    /\ last.op = "List" => last.listing = envTitles(Listing)

C8_Witness ==
    /\ last.op = "List"
    /\ Len(LoadedOrder(orderFile)) > 0
    /\ Cardinality(RecordFiles(dirExists, files) \ Ranked(orderFile)) >= 2
    /\ Cardinality(RecordFiles(dirExists, files) \cap Ranked(orderFile)) >= 1

\* C9: an ordering file that is missing, empty or unparsable loads as
\* {fixed: false, order: empty} and is no error: the listing is then the
\* record files in the order of the directory enumeration, the same with an
\* unparsable ordering file as with none.
C9_BrokenOrderFileIsNoOrder ==
    orderFile.kind \in {"absent", "empty", "corrupt"} =>
        /\ readEnvOrder(orderFile) = envOrder(FALSE, FALSE, <<>>)
        /\ Listing = GetEnvironmentFiles(dirExists, files, NoOrderFile)
        /\ IsPermutationOf(Listing, RecordFiles(dirExists, files))
        /\ \A i, j \in DOMAIN Listing : i < j => NameLess(Listing[i], Listing[j])
        /\ last.op = "List" => (last.err = "none" /\ last.listing = envTitles(Listing))

C9_Witness ==
    /\ orderFile.kind = "corrupt"
    /\ last.op = "List"
    /\ Len(last.listing) >= 2

\* C10: a delete of an identifier with no record file fails with the
\* not-found error and changes nothing; otherwise it removes that record
\* file and nothing else: the other entries of the directory and the
\* ordering file stay as they were, and the next listing is the listing
\* before without the deleted file.
C10_DeleteRemovesOnlyTheRecord ==
    [][last'.op = "Delete"
          => LET file == getEnvFilePath(last'.id)
             IN IF file \notin RecordFiles(dirExists, files)
                THEN last'.err = "notexist" /\ UNCHANGED store
                ELSE /\ last'.err = "none"
                     /\ files'[file].kind = "absent"
                     /\ \A n \in EntryNames \ {file} : files'[n] = files[n]
                     /\ UNCHANGED <<dirExists, orderFile>>
                     /\ GetEnvironmentFiles(dirExists', files', orderFile')
                            = SelectSeq(Listing, LAMBDA n : n # file)]_vars

C10_Witness ==
    /\ last.op = "Delete" /\ last.err = "none"
    /\ getEnvFilePath(last.id) \in Ranked(orderFile)
    /\ Cardinality(RecordFiles(dirExists, files)) >= 2

\* C11: a selection on a store with no record file, the store directory
\* missing included, fails with the empty-store error; the prompt is not
\* run and nothing in the file system changes.
C11_SelectOnEmptyStore ==
    [][(last'.op = "Select" /\ RecordFiles(dirExists, files) = {})
          => (/\ last'.err = "empty"
              /\ ~last'.presented
              /\ ~last'.captured
              /\ UNCHANGED store)]_vars

C11_Witness ==
    /\ last.op = "Select" /\ last.err = "empty"
    /\ dirExists
    /\ files[getEnvFilePath(<<"b">>)].kind = "dir"
    /\ orderFile.kind = "json" /\ Len(orderFile.order) >= 2

\* A create-or-read that captured a new record, the handler succeeding.
Captured(c) == c.op = "CreateOrRead" /\ c.captured /\ c.entered \in Vals

\* The entry of id is first in the persisted order list.
First(of, id) ==
    /\ of.kind = "json" /\ ~of.isNil
    /\ Len(of.order) > 0
    /\ of.order[1] = EntryOf(id)

C13_EntryIsRecordFileName ==
    [][(BroughtToFront(last') /\ ~Pinned(orderFile) /\ dirExists')
          => /\ orderFile'.kind = "json" /\ ~orderFile'.isNil
             /\ Len(orderFile'.order) > 0
             /\ orderFile'.order[1] = getEnvFilePath(last'.id)]_vars

\* No entry occurs twice in the sequence s.
NoDuplicates(s) == \A i, j \in DOMAIN s : s[i] = s[j] => i = j

\* C14 as stated: after any bring-to-front update that writes the ordering
\* file, every entry of the persisted order list occurs exactly once.
C14_AsStated ==
    [][(BroughtToFront(last') /\ ~Pinned(orderFile) /\ dirExists')
          => NoDuplicates(LoadedOrder(orderFile'))]_vars

\* C14: after a bring-to-front update that writes the ordering file, the
\* entry brought to the front occurs exactly once, every other entry occurs
\* as often as it did before, and so a list without duplicates stays without
\* duplicates; an entry other than the accessed one that a hand-edited list
\* holds twice is written back twice.
C14_NoNewDuplicates ==
    [][(BroughtToFront(last') /\ ~Pinned(orderFile) /\ dirExists')
          => LET old == LoadedOrder(orderFile)
                 new == LoadedOrder(orderFile')
             IN /\ Len(new) > 0
                /\ Count(new, new[1]) = 1
                /\ \A e \in (Ranked(orderFile) \cup Ranked(orderFile')) \ {new[1]} :
                      Count(new, e) = Count(old, e)
                /\ NoDuplicates(old) => NoDuplicates(new)]_vars

C14_Witness ==
    /\ BroughtToFront(last) /\ ~Pinned(orderFile) /\ dirExists
    /\ Len(LoadedOrder(orderFile)) >= 3
    /\ Count(LoadedOrder(orderFile), LoadedOrder(orderFile)[1]) = 1
    /\ \E e \in Ranked(orderFile) : Count(LoadedOrder(orderFile), e) = 2

\* The sequence s without the entries equal to e.
Without(s, e) == SelectSeq(s, LAMBDA x : x # e)

\* The listing after a call lists file first and the other record files in
\* the order the listing before the call gave them.
ListedFirstOthersKept(file) ==
    LET before == GetEnvironmentFiles(dirExists, files, orderFile)
        after == GetEnvironmentFiles(dirExists', files', orderFile')
    IN /\ Len(after) > 0
       /\ after[1] = file
       /\ Without(after, file) = Without(before, file)

\* C15: after a successful ReadEnvironment or SelectEnvironment of an
\* existing record, the ordering not fixed, the next listing returns that
\* record first and every other record in the same relative order as the
\* listing before the access.
C15_AccessedRecordListedFirst ==
    [][(last'.op \in {"Read", "Select"} /\ last'.err = "none" /\ ~Pinned(orderFile))
          => ListedFirstOthersKept(getEnvFilePath(last'.id))]_vars

\* The same for identifiers that do not end in ".json", for which the order
\* entry is the record file name.
C15_UnsuffixedIdentifiers ==
    [][(/\ last'.op \in {"Read", "Select"} /\ last'.err = "none"
        /\ ~Pinned(orderFile) /\ ~HasSuffix(last'.id))
          => ListedFirstOthersKept(getEnvFilePath(last'.id))]_vars

\* The record file of id exists and cannot be decoded: the key source fails
\* or gives another key than the one the record was written under.
Undecodable(id) ==
    /\ getEnvFilePath(id) \in RecordFiles(dirExists, files)
    /\ \/ KeySource.kind = "fail"
       \/ files[getEnvFilePath(id)].mac # KeySource.key

\* C16: a strict read and a create-or-read of an identifier whose record
\* file exists but does not decode return the decode error, do not call the
\* capture handler and leave the record files and the ordering file as they
\* were; a read of an existing record changes the ordering file only when
\* it decoded the record and returns success.
C16_DecodeFailureChangesNothing ==
    [][(/\ last'.op \in {"Read", "CreateOrRead"}
        /\ getEnvFilePath(last'.id) \in RecordFiles(dirExists, files))
          => /\ Undecodable(last'.id)
                   => /\ last'.err = "decode" /\ last'.target = 0
                      /\ ~last'.captured /\ ~last'.saved
                      /\ UNCHANGED store
             /\ orderFile' # orderFile
                   => /\ ~Undecodable(last'.id) /\ last'.err = "none"
                      /\ First(orderFile', last'.id)]_vars

C16_Witness ==
    /\ last.op = "CreateOrRead" /\ last.err = "decode"
    /\ KeySource.kind = "key"
    /\ files[getEnvFilePath(last.id)].kind = "file"
    /\ files[getEnvFilePath(last.id)].mac # KeySource.key
    /\ dirExists /\ ~Pinned(orderFile)
    /\ Len(LoadedOrder(orderFile)) >= 2
    /\ LoadedOrder(orderFile)[1] # EntryOf(last.id)

\* Processes p and q have both returned from envOrderBringToFront, q last,
\* for names with different entries, with a store directory to write into
\* and an ordering that is not fixed.
BothReturned(p, q) ==
    /\ p # q
    /\ calls[p].pc = "done" /\ calls[q].pc = "done"
    /\ calls[q].finished = 2
    /\ EntryOf(calls[p].name) # EntryOf(calls[q].name)
    /\ dirExists /\ ~Pinned(orderFile)

\* C17: when two processes bring names with different entries to the front
\* and both load the ordering file before either writes it, the ordering
\* file holds what the last writer alone would have written from the order
\* both loaded: its entry first, then the entries of that order, and the
\* entry of the other process not first and in the list only if it was in
\* it before.  When the second loads after the first has written, both
\* entries are in the list, the second's first and the first's next.
C17_LostUpdate ==
    \A p, q \in Procs :
       BothReturned(p, q) =>
          LET loaded == calls[p].order.Order
              np == EntryOf(calls[p].name)
              nq == EntryOf(calls[q].name)
              final == LoadedOrder(orderFile)
          IN /\ (calls[p].loadedAfter = 0 /\ calls[q].loadedAfter = 0)
                   => /\ final = <<nq>> \o Without(loaded, nq)
                      /\ final[1] # np
                      /\ Count(final, np) = Count(loaded, np)
             /\ calls[q].loadedAfter = 1
                   => /\ Len(final) >= 2
                      /\ final[1] = nq /\ final[2] = np
                      /\ Count(final, np) = 1

C17_Witness ==
    \E p, q \in Procs :
       /\ BothReturned(p, q)
       /\ calls[p].loadedAfter = 0 /\ calls[q].loadedAfter = 0
       /\ Len(calls[p].order.Order) >= 2
       /\ LoadedOrder(orderFile)[1] = EntryOf(calls[q].name)
       /\ EntryOf(calls[p].name) \notin Ranked(orderFile)

\* C18: no call removes an entry from the persisted order list: the set of
\* order entries after a read, create-or-read, select, list or delete call
\* holds every entry it held before, and a delete leaves the entry of the
\* record it deleted in the list.
C18_OrderEntriesOnlyGrow ==
    [][/\ Ranked(orderFile) \subseteq Ranked(orderFile')
       /\ (last'.op = "Delete" /\ last'.err = "none")
             => /\ LoadedOrder(orderFile') = LoadedOrder(orderFile)
                /\ getEnvFilePath(last'.id) \notin RecordFiles(dirExists', files')]_vars

C18_Witness ==
    /\ last.op = "Delete" /\ last.err = "none"
    /\ ~Pinned(orderFile)
    /\ Len(LoadedOrder(orderFile)) >= 2
    /\ LoadedOrder(orderFile)[1] = getEnvFilePath(last.id)
    /\ files[getEnvFilePath(last.id)].kind = "absent"

\* C19: in every state, whatever the ordering file holds, the listing names
\* each record file (each entry of the store directory that is no directory
\* and whose name ends in ".json") exactly once and nothing else: not the
\* ordering file, no directory, no name that only the order list holds.
C19_ListingIsThePermutationOfRecordFiles ==
    LET listed == {Listing[i] : i \in DOMAIN Listing}
    IN /\ IsPermutationOf(Listing,
              {n \in EntryNames : dirExists /\ files[n].kind = "file" /\ HasSuffix(n)})
       /\ envOrderFileName \notin listed
       /\ \A n \in listed : n \in EntryNames /\ files[n].kind # "dir"
       /\ \A n \in Ranked(orderFile) :
             (n \notin EntryNames \/ files[n].kind # "file") => n \notin listed
       /\ last.op = "List" => last.listing = envTitles(Listing)

C19_Witness ==
    /\ last.op = "List" /\ Len(last.listing) >= 2
    /\ orderFile.kind = "json"
    /\ StaleName \in Ranked(orderFile)
    /\ \E n \in Ranked(orderFile) \cap EntryNames : files[n].kind = "dir"

\* C20: no call overwrites an existing record.  A record file that exists
\* stays as it is in every call but a delete of its identifier, which
\* removes it; a record file is written only by a create-or-read call of
\* its identifier that found no record file, called the capture handler and
\* saved; and a create-or-read of an existing record does not call the
\* capture handler and leaves every file as it is.
C20_NoOverwrite ==
    [][/\ \A n \in EntryNames :
             /\ (dirExists /\ files[n].kind = "file")
                   => \/ files'[n] = files[n]
                      \/ /\ last'.op = "Delete" /\ last'.err = "none"
                         /\ getEnvFilePath(last'.id) = n
                         /\ files'[n] = Absent
             /\ (files'[n] # files[n] /\ files'[n].kind = "file")
                   => /\ last'.op = "CreateOrRead"
                      /\ getEnvFilePath(last'.id) = n
                      /\ n \notin RecordFiles(dirExists, files)
                      /\ last'.captured /\ last'.saved
                      /\ \E k \in Keys : files'[n] = Encrypt(last'.entered, k)
       /\ (/\ last'.op = "CreateOrRead"
           /\ getEnvFilePath(last'.id) \in RecordFiles(dirExists, files))
             => ~last'.captured /\ files' = files]_vars

C20_Witness ==
    /\ last.op = "CreateOrRead" /\ last.err = "none"
    /\ ~last.captured /\ ~last.saved
    /\ last.target = MaxVal
    /\ files[getEnvFilePath(last.id)] = Encrypt(MaxVal, KeySource.key)
    /\ First(orderFile, last.id)

====
